---- MODULE Spec2Model ----
(***************************************************************************)
(* Model of the local store of the MRI physics tool: the versioned Dexie   *)
(* database (src/src/db/index.ts), the cascade delete handlers of the      *)
(* pages, and the version-3 upgrade procedure.                             *)
(*                                                                         *)
(* A table is a set of rows, a row is a record; a field that a row does    *)
(* not carry has the value NONE.  The variable db is a record whose        *)
(* domain is the set of tables (object stores) that exist; db.locations    *)
(* is undefined once the version-3 layout has removed that table, and a    *)
(* handler that touches it throws.                                         *)
(***************************************************************************)
EXTENDS Integers, Sequences, FiniteSets, TLC

NONE == 0

(***************************************************************************)
(* Identifier pools.  The pages draw ids from uuidv4(); the model draws    *)
(* them from disjoint integer ranges, one range per table.                 *)
(***************************************************************************)
OrgIds == {101}
SiteIds == {201}
RoomIds == {301, 302}
EquipmentIds == {401, 402}
EventIds == {501, 502}
ImageIds == {601}

\* how many edit saves and how many delete handlers one behaviour runs
MaxEdits == 1
MaxCascades == 1
MaxSaves == 1
MaxClock == 2

VARIABLES
    verno,      \* the version recorded in the persisted store
    db,         \* table name -> set of rows, for the tables that exist
    open,       \* progress of the open of the store (the migration run)
    snap,       \* the state the version step in progress rolls back to
    cascade,    \* the delete handler in flight (or Idle)
    pre,        \* db when the operation in flight (open or delete) started
    nEdits,     \* number of edit saves so far
    nCascades,  \* number of delete handlers started so far
    origin,     \* the persisted store (version, tables) found at launch
    result,     \* what the last composite read helper called has returned
    now,        \* the last reading of the clock (new Date())
    dialog,     \* the add/edit dialog that is open: its page, editingId, form
    outcome,    \* the last add or update a page has issued, and how it ended
    nSaves,     \* number of adds and updates issued so far
    camera      \* the camera page: its state, the hook's state, what is pending

\* the state of the pages' dialogs and the clock
saveVars == <<now, dialog, outcome, nSaves>>

\* what the store operations of this section leave alone
others == <<origin, result, saveVars, camera>>

vars == <<verno, db, open, snap, cascade, pre, nEdits, nCascades, origin, result,
          now, dialog, outcome, nSaves, camera>>

(***************************************************************************)
(* Rows (unnamed/part_010: the entity types).  Equipment, events and       *)
(* images written by the pages of the locations schema carry locationId;   *)
(* the version-3 upgrade renames that field to roomId.                     *)
(***************************************************************************)
Organization(i) == [id |-> i]
Site(i, o) == [id |-> i, organizationId |-> o]
Room(i, s) == [id |-> i, siteId |-> s]
Equipment(i, l, r) == [id |-> i, locationId |-> l, roomId |-> r]
SupportEvent(i, q, l, r) ==
    [id |-> i, equipmentId |-> q, locationId |-> l, roomId |-> r]
GalleryImage(i, e, q, l, r) ==
    [id |-> i, eventId |-> e, equipmentId |-> q, locationId |-> l, roomId |-> r]

HasTable(d, t) == t \in DOMAIN d

Ids(rows) == {r.id : r \in rows}

\* db.T.where(f).equals(v) / .anyOf(vals): the rows whose field f is one of vals
Where(d, t, f, vals) == {r \in d[t] : r[f] \in vals}

(***************************************************************************)
(* Schema registry: MRIPhysicsDB.constructor.  Stores(v) is the layout     *)
(* version v declares (table -> indexed fields); Tombstones(v) are the     *)
(* tables it declares as null.                                             *)
(***************************************************************************)
\* mutant: version 2 is not registered
VersionsWithoutSecond == {1, 3}

\* mutant: a further version is registered after version 3
VersionsWithFourth == {1, 2, 3, 4}

Versions == {1, 2, 3}

Stores(v) ==
    CASE v = 1 ->
           [locations |-> {"id", "name", "createdAt"},
            equipment |-> {"id", "locationId", "name", "manufacturer", "model",
                           "status", "createdAt"},
            events    |-> {"id", "equipmentId", "locationId", "type", "status",
                           "scheduledDate", "createdAt"},
            images    |-> {"id", "eventId", "equipmentId", "locationId",
                           "capturedAt", "tags"},
            timelines |-> {"id", "eventId", "createdAt"}]
      [] v = 2 ->
           [organizations |-> {"id", "name", "createdAt"},
            sites     |-> {"id", "organizationId", "name", "createdAt"},
            locations |-> {"id", "siteId", "name", "createdAt"},
            equipment |-> {"id", "locationId", "type", "name", "manufacturer",
                           "model", "status", "createdAt"},
            events    |-> {"id", "equipmentId", "locationId", "type", "status",
                           "scheduledDate", "createdAt"},
            images    |-> {"id", "eventId", "equipmentId", "locationId",
                           "capturedAt", "tags"},
            timelines |-> {"id", "eventId", "createdAt"}]
      [] v = 3 ->
           [organizations |-> {"id", "name", "createdAt"},
            sites     |-> {"id", "organizationId", "name", "createdAt"},
            rooms     |-> {"id", "siteId", "name", "createdAt"},
            equipment |-> {"id", "roomId", "type", "name", "manufacturer",
                           "model", "status", "createdAt"},
            events    |-> {"id", "equipmentId", "roomId", "type", "status",
                           "scheduledDate", "createdAt"},
            images    |-> {"id", "eventId", "equipmentId", "roomId",
                           "capturedAt", "tags"},
            timelines |-> {"id", "eventId", "createdAt"}]
      [] OTHER -> [t \in {} |-> {}]

Tombstones(v) == IF v = 3 THEN {"locations"} ELSE {}

\* the versions that register an upgrade procedure: .upgrade(async tx => ...)
HasUpgrade(v) == v = 3

(***************************************************************************)
(* The version-3 upgrade procedure, statement by statement.                *)
(***************************************************************************)
\* if ('locationId' in item) { item.roomId = item.locationId; delete item.locationId }
\* mutant: the old field is not deleted
RenameKeepingLocationId(item) ==
    IF item.locationId # NONE
    THEN [item EXCEPT !.roomId = item.locationId]
    ELSE item

RenameLocationId(item) ==
    IF item.locationId # NONE
    THEN [item EXCEPT !.roomId = item.locationId, !.locationId = NONE]
    ELSE item

\* tx.table(t).toCollection().modify(item => ...)
ModifyTable(d, t) == [d EXCEPT ![t] = {RenameLocationId(item) : item \in d[t]}]

\* bulkAdd rejects a row whose key is already in the table
BulkAddFails(d) == Ids(d.locations) \cap Ids(d.rooms) # {}

\* const locations = await tx.table('locations').toArray();
\* if (locations.length > 0) await tx.table('rooms').bulkAdd(locations);
\* mutant: only the keys of the locations are copied
CopyLocationIds(d) == [d EXCEPT !.rooms = d.rooms \cup {Room(l.id, NONE) : l \in d.locations}]

CopyLocations(d) == [d EXCEPT !.rooms = d.rooms \cup d.locations]

UpgradeSteps == <<"rooms", "equipment", "events", "images">>

UpgradeStep(d, step) ==
    CASE step = "rooms"     -> CopyLocations(d)
      [] step = "equipment" -> ModifyTable(d, "equipment")
      [] step = "events"    -> ModifyTable(d, "events")
      [] step = "images"    -> ModifyTable(d, "images")

\* every statement of the upgrade procedure goes through tx (tx.table(...)),
\* so its writes belong to the transaction of the version step
\* mutant: the equipment rewrite goes round the upgrade transaction
UsesTxExceptEquipment(step) == step # "equipment"

\* mutant: the events rewrite goes round the upgrade transaction
UsesTxExceptEvents(step) == step # "events"

UsesTx(step) == TRUE

(***************************************************************************)
(* Migration engine (the Dexie open): for each registered version above    *)
(* the recorded one, in ascending order, one transaction that applies the  *)
(* layout, runs the upgrade procedure, removes the tombstoned tables and   *)
(* records the version; a failure rolls the transaction back.              *)
(***************************************************************************)
Min(S) == CHOOSE x \in S : \A y \in S : x <= y
Max(S) == CHOOSE x \in S : \A y \in S : x >= y

Latest == Max(Versions)

Pending(c) == {v \in Versions : v > c}

LayoutStep == 0
CommitStep == Len(UpgradeSteps) + 1

\* retry: an earlier open since launch has failed.
\* status, the version recorded when the open began, the version step in
\* progress and the position in it; the logs record, for this open, the
\* versions whose layout was applied, whose upgrade procedure was entered and
\* whose step committed, and committed is the store as last committed
Closed ==
    [status |-> "closed", from |-> 0, v |-> 0, step |-> 0,
     layoutLog |-> <<>>, upgradeLog |-> <<>>, commitLog |-> <<>>,
     committed |-> [t \in {} |-> {}], retry |-> FALSE]

Idle ==
    [handler |-> "none", id |-> NONE, pc |-> 0, status |-> "idle",
     env |-> [siteIds |-> {}, locationIds |-> {}, roomIds |-> {}]]

\* no dialog is open: editingId and the form fields the pages keep
NoDialog ==
    [handler |-> "none", editingId |-> NONE, parent |-> NONE, name |-> "",
     locationId |-> NONE, status |-> "", startedAt |-> NONE, completedAt |-> NONE]

\* no add or update has been issued
NoOutcome ==
    [op |-> "none", table |-> "", id |-> NONE, row |-> [id |-> NONE], ok |-> TRUE]

NoSaves == now = 1 /\ dialog = NoDialog /\ outcome = NoOutcome /\ nSaves = 0

\* the camera page is not on screen: the state a mount starts from
NoCamera ==
    [mounted |-> FALSE, mode |-> "INITIAL", capturedImage |-> FALSE,
     croppedBlob |-> FALSE, previewUrl |-> FALSE, error |-> FALSE,
     stream |-> NONE, isReady |-> FALSE, video |-> NONE, awaiting |-> FALSE,
     starts |-> 0, requests |-> 0, acquired |-> 0, live |-> {},
     captures |-> {}, files |-> {}, blobs |-> 0]

\* no composite read helper has been called
NoResult ==
    [helper |-> "none", id |-> NONE, isNull |-> TRUE, parent |-> {},
     children |-> {}, timelines |-> {}]

\* the layout of version v: every declared table exists afterwards
WithLayout(d, v) ==
    [t \in DOMAIN d \cup DOMAIN Stores(v) |-> IF t \in DOMAIN d THEN d[t] ELSE {}]

\* the tombstoned tables of version v are removed when its step commits
WithoutTombstones(d, v) == [t \in DOMAIN d \ Tombstones(v) |-> d[t]]

OpenStore ==
    /\ open.status # "upgrading"
    /\ pre' = db
    /\ IF Pending(verno) = {}
       THEN /\ open' = [Closed EXCEPT !.status = "ready", !.from = verno,
                                      !.committed = db,
                                      !.retry = open.retry \/ open.status = "failed"]
            /\ snap' = snap
       ELSE /\ open' = [Closed EXCEPT !.status = "upgrading", !.from = verno,
                                      !.v = Min(Pending(verno)), !.step = LayoutStep,
                                      !.committed = db,
                                      !.retry = open.retry \/ open.status = "failed"]
            /\ snap' = db
    /\ UNCHANGED <<verno, db, cascade, nEdits, nCascades>>
    /\ UNCHANGED others

ApplyLayout ==
    /\ open.status = "upgrading"
    /\ open.step = LayoutStep
    /\ db' = WithLayout(db, open.v)
    /\ open' = [open EXCEPT !.layoutLog = Append(@, open.v),
                            !.step = IF HasUpgrade(open.v) THEN 1 ELSE CommitStep]
    /\ UNCHANGED <<verno, snap, cascade, pre, nEdits, nCascades>>
    /\ UNCHANGED others

RunUpgradeStep ==
    /\ open.status = "upgrading"
    /\ open.step \in 1..Len(UpgradeSteps)
    /\ LET step == UpgradeSteps[open.step] IN
         /\ ~(step = "rooms" /\ BulkAddFails(db))
         /\ db' = UpgradeStep(db, step)
         /\ snap' = IF UsesTx(step) THEN snap ELSE UpgradeStep(snap, step)
    /\ open' = [open EXCEPT !.step = @ + 1,
                            !.upgradeLog = IF open.step = 1 THEN Append(@, open.v) ELSE @]
    /\ UNCHANGED <<verno, cascade, pre, nEdits, nCascades>>
    /\ UNCHANGED others

CommitVersion ==
    /\ open.status = "upgrading"
    /\ open.step = CommitStep
    /\ db' = WithoutTombstones(db, open.v)
    /\ verno' = open.v
    /\ snap' = db'
    /\ open' = IF Pending(open.v) = {}
               THEN [open EXCEPT !.status = "ready", !.v = 0, !.step = 0,
                                 !.commitLog = Append(@, open.v), !.committed = db']
               ELSE [open EXCEPT !.v = Min(Pending(open.v)), !.step = LayoutStep,
                                 !.commitLog = Append(@, open.v), !.committed = db']
    /\ UNCHANGED <<cascade, pre, nEdits, nCascades>>
    /\ UNCHANGED others

\* a layout change, an upgrade statement or the commit fails: the version
\* step is rolled back and the open fails
FailVersion ==
    /\ open.status = "upgrading"
    /\ db' = snap
    /\ open' = [open EXCEPT !.status = "failed"]
    /\ UNCHANGED <<verno, snap, cascade, pre, nEdits, nCascades>>
    /\ UNCHANGED others

(***************************************************************************)
(* A whole open that does not fail, as the pages see it: the store is at   *)
(* the latest version afterwards.                                          *)
(***************************************************************************)
RECURSIVE RunUpgrade(_, _)
RunUpgrade(d, i) ==
    IF i > Len(UpgradeSteps) THEN d ELSE RunUpgrade(UpgradeStep(d, UpgradeSteps[i]), i + 1)

VersionStep(d, v) ==
    WithoutTombstones(IF HasUpgrade(v) THEN RunUpgrade(WithLayout(d, v), 1)
                                       ELSE WithLayout(d, v), v)

RECURSIVE Migrated(_, _)
Migrated(d, c) ==
    IF Pending(c) = {} THEN d
    ELSE Migrated(VersionStep(d, Min(Pending(c))), Min(Pending(c)))

(***************************************************************************)
(* Cascade delete handlers.  A handler is the sequence of its awaited      *)
(* store operations:                                                       *)
(*   Scan(var, t, f, from)     var = (await db.t.where(f).equals/anyOf(from)*)
(*                                    .toArray()).map(r => r.id)           *)
(*   DeleteWhere(t, f, from)   await db.t.where(f).equals/anyOf(from)      *)
(*                                    .delete()                            *)
(*   DeleteKey(t)              await db.t.delete(id)                       *)
(*   Clear(t)                  await db.t.clear()                          *)
(* where from is "id" (the handler's argument) or a variable of an         *)
(* earlier Scan.                                                           *)
(***************************************************************************)
Scan(var, t, f, from) ==
    [op |-> "scan", var |-> var, table |-> t, field |-> f, from |-> from]
DeleteWhere(t, f, from) ==
    [op |-> "delete", var |-> "", table |-> t, field |-> f, from |-> from]
DeleteKey(t) ==
    [op |-> "delete", var |-> "", table |-> t, field |-> "id", from |-> "id"]
Clear(t) ==
    [op |-> "clear", var |-> "", table |-> t, field |-> "id", from |-> "id"]

OrganizationsHandleDelete ==
    << Scan("siteIds", "sites", "organizationId", "id"),
       Scan("locationIds", "locations", "siteId", "siteIds"),
       DeleteWhere("equipment", "locationId", "locationIds"),
       DeleteWhere("locations", "siteId", "siteIds"),
       DeleteWhere("sites", "organizationId", "id"),
       DeleteKey("organizations") >>

DashboardHandleDeleteOrg ==
    << Scan("siteIds", "sites", "organizationId", "id"),
       Scan("locationIds", "locations", "siteId", "siteIds"),
       DeleteWhere("equipment", "locationId", "locationIds"),
       DeleteWhere("locations", "siteId", "siteIds"),
       DeleteWhere("sites", "organizationId", "id"),
       DeleteKey("organizations") >>

DashboardHandleDeleteSite ==
    << Scan("locationIds", "locations", "siteId", "id"),
       DeleteWhere("equipment", "locationId", "locationIds"),
       DeleteWhere("locations", "siteId", "id"),
       DeleteKey("sites") >>

DashboardHandleDeleteLocation ==
    << DeleteWhere("equipment", "locationId", "id"),
       DeleteKey("locations") >>

SitesHandleDelete ==
    << Scan("locationIds", "locations", "siteId", "id"),
       DeleteWhere("equipment", "locationId", "locationIds"),
       DeleteWhere("locations", "siteId", "id"),
       DeleteKey("sites") >>

SitesHandleDeleteConfirm ==
    << Scan("roomIds", "rooms", "siteId", "id"),
       DeleteWhere("images", "roomId", "roomIds"),
       DeleteWhere("events", "roomId", "roomIds"),
       DeleteWhere("equipment", "roomId", "roomIds"),
       DeleteWhere("rooms", "siteId", "id"),
       DeleteKey("sites") >>

\* mutant: the events sweep loses its filter
RoomsHandleDeleteConfirmUnfiltered ==
    << DeleteWhere("images", "roomId", "id"),
       Clear("events"),
       DeleteWhere("equipment", "roomId", "id"),
       DeleteKey("rooms") >>

\* mutant: the equipment sweep is left out
RoomsHandleDeleteConfirmWithoutEquipment ==
    << DeleteWhere("images", "roomId", "id"),
       DeleteWhere("events", "roomId", "id"),
       DeleteKey("rooms") >>

RoomsHandleDeleteConfirm ==
    << DeleteWhere("images", "roomId", "id"),
       DeleteWhere("events", "roomId", "id"),
       DeleteWhere("equipment", "roomId", "id"),
       DeleteKey("rooms") >>

LocationsHandleDelete ==
    << DeleteKey("locations"),
       DeleteWhere("equipment", "locationId", "id") >>

EquipmentPageHandleDelete ==
    << DeleteKey("equipment"),
       DeleteWhere("events", "equipmentId", "id") >>

\* mutant: the images sweep uses the wrong key
EventsHandleDeleteWrongKey ==
    << DeleteKey("events"),
       DeleteWhere("images", "equipmentId", "id"),
       DeleteWhere("timelines", "eventId", "id") >>

EventsHandleDelete ==
    << DeleteKey("events"),
       DeleteWhere("images", "eventId", "id"),
       DeleteWhere("timelines", "eventId", "id") >>

\* the awaited clears of handleClearData, after its two confirmations
ExportHandleClearData ==
    << Clear("organizations"),
       Clear("sites"),
       Clear("locations"),
       Clear("equipment"),
       Clear("events"),
       Clear("images"),
       Clear("timelines") >>

Handlers ==
    {"Organizations.handleDelete", "Dashboard.handleDelete.org",
     "Dashboard.handleDelete.site", "Dashboard.handleDelete.location",
     "Sites.handleDelete", "Sites.handleDeleteConfirm",
     "Rooms.handleDeleteConfirm", "Locations.handleDelete",
     "EquipmentPage.handleDelete", "Events.handleDelete"}

Program(h) ==
    CASE h = "Organizations.handleDelete"      -> OrganizationsHandleDelete
      [] h = "Dashboard.handleDelete.org"      -> DashboardHandleDeleteOrg
      [] h = "Dashboard.handleDelete.site"     -> DashboardHandleDeleteSite
      [] h = "Dashboard.handleDelete.location" -> DashboardHandleDeleteLocation
      [] h = "Sites.handleDelete"              -> SitesHandleDelete
      [] h = "Sites.handleDeleteConfirm"       -> SitesHandleDeleteConfirm
      [] h = "Rooms.handleDeleteConfirm"       -> RoomsHandleDeleteConfirm
      [] h = "Locations.handleDelete"          -> LocationsHandleDelete
      [] h = "EquipmentPage.handleDelete"      -> EquipmentPageHandleDelete
      [] h = "Events.handleDelete"             -> EventsHandleDelete
      [] h = "Export.handleClearData"          -> ExportHandleClearData

\* the table whose rows the page lists and offers for deletion
Root(h) ==
    CASE h \in {"Organizations.handleDelete", "Dashboard.handleDelete.org"}
           -> "organizations"
      [] h \in {"Dashboard.handleDelete.site", "Sites.handleDelete",
                "Sites.handleDeleteConfirm"}
           -> "sites"
      [] h \in {"Dashboard.handleDelete.location", "Locations.handleDelete"}
           -> "locations"
      [] h = "Rooms.handleDeleteConfirm"  -> "rooms"
      [] h = "EquipmentPage.handleDelete" -> "equipment"
      [] h = "Events.handleDelete"        -> "events"

CurrentOp == Program(cascade.handler)[cascade.pc]

\* the ids an operation of the handler in flight is applied to
Operand(from) == IF from = "id" THEN {cascade.id} ELSE cascade.env[from]

Advance(c) ==
    IF c.pc = Len(Program(c.handler))
    THEN [c EXCEPT !.status = "done"]
    ELSE [c EXCEPT !.pc = @ + 1]

\* the application is launched with the current build: db.open() succeeds
OpenMigrated ==
    /\ cascade.status = "idle"
    /\ verno < Latest
    /\ db' = Migrated(db, verno)
    /\ verno' = Latest
    /\ pre' = db'
    /\ UNCHANGED <<open, snap, cascade, nEdits, nCascades>>
    /\ UNCHANGED others

\* the user confirms the deletion of a listed row
StartCascade(h, x) ==
    /\ cascade.status = "idle"
    /\ nCascades < MaxCascades
    /\ HasTable(db, Root(h))
    /\ x \in Ids(db[Root(h)])
    /\ cascade' = [Idle EXCEPT !.handler = h, !.id = x, !.pc = 1,
                               !.status = "running"]
    /\ pre' = db
    /\ nCascades' = nCascades + 1
    /\ UNCHANGED <<verno, db, open, snap, nEdits>>
    /\ UNCHANGED others

CascadeScan ==
    /\ cascade.status = "running"
    /\ CurrentOp.op = "scan"
    /\ HasTable(db, CurrentOp.table)
    /\ cascade' =
         Advance([cascade EXCEPT !.env[CurrentOp.var] =
             Ids(Where(db, CurrentOp.table, CurrentOp.field, Operand(CurrentOp.from)))])
    /\ UNCHANGED <<verno, db, open, snap, pre, nEdits, nCascades>>
    /\ UNCHANGED others

CascadeDelete ==
    /\ cascade.status = "running"
    /\ CurrentOp.op \in {"delete", "clear"}
    /\ HasTable(db, CurrentOp.table)
    /\ db' = [db EXCEPT ![CurrentOp.table] =
                 IF CurrentOp.op = "clear" THEN {}
                 ELSE @ \ Where(db, CurrentOp.table, CurrentOp.field,
                                Operand(CurrentOp.from))]
    /\ cascade' = Advance(cascade)
    /\ UNCHANGED <<verno, open, snap, pre, nEdits, nCascades>>
    /\ UNCHANGED others

\* db.t is undefined for a table the open layout does not have
CascadeTypeError ==
    /\ cascade.status = "running"
    /\ ~HasTable(db, CurrentOp.table)
    /\ cascade' = [cascade EXCEPT !.status = "failed"]
    /\ UNCHANGED <<verno, db, open, snap, pre, nEdits, nCascades>>
    /\ UNCHANGED others

\* the awaited store operation rejects
CascadeStorageError ==
    /\ cascade.status = "running"
    /\ HasTable(db, CurrentOp.table)
    /\ cascade' = [cascade EXCEPT !.status = "failed"]
    /\ UNCHANGED <<verno, db, open, snap, pre, nEdits, nCascades>>
    /\ UNCHANGED others

\* the handler has returned (setDeleteConfirm(null)) or thrown
CascadeReturn ==
    /\ cascade.status \in {"done", "failed"}
    /\ cascade' = Idle
    /\ pre' = db
    /\ UNCHANGED <<verno, db, open, snap, nEdits, nCascades>>
    /\ UNCHANGED others

(***************************************************************************)
(* Edit saves of the equipment and events pages (the update branch of      *)
(* handleSave): they move an Equipment to another Location and an Event    *)
(* to another Equipment.                                                   *)
(***************************************************************************)
\* db.equipment.update(editingId, {...formData, updatedAt: now})
EquipmentPageHandleSave(q, l) ==
    /\ cascade.status = "idle"
    /\ nEdits < MaxEdits
    /\ HasTable(db, "locations")
    /\ q \in db.equipment
    /\ l \in Ids(db.locations)
    /\ l # q.locationId
    /\ db' = [db EXCEPT !.equipment = (@ \ {q}) \cup {[q EXCEPT !.locationId = l]}]
    /\ nEdits' = nEdits + 1
    /\ pre' = db'
    /\ UNCHANGED <<verno, open, snap, cascade, nCascades>>
    /\ UNCHANGED others

\* handleEquipmentChange: locationId: eq?.locationId || prev.locationId
\* db.events.update(editingId, {...formData, updatedAt: now})
EventsHandleSave(e, q) ==
    /\ cascade.status = "idle"
    /\ nEdits < MaxEdits
    /\ e \in db.events
    /\ q \in db.equipment
    /\ q.id # e.equipmentId
    /\ db' = [db EXCEPT !.events = (@ \ {e}) \cup
                 {[e EXCEPT !.equipmentId = q.id,
                            !.locationId = IF q.locationId # NONE
                                           THEN q.locationId ELSE e.locationId]}]
    /\ nEdits' = nEdits + 1
    /\ pre' = db'
    /\ UNCHANGED <<verno, open, snap, cascade, nCascades>>
    /\ UNCHANGED others

(***************************************************************************)
(* Initial states: a version-2 store filled through the pages of the       *)
(* locations schema.  Every Site, Location, Equipment and Event was saved  *)
(* under an existing parent; an Event copies its Equipment's locationId    *)
(* (Events.handleOpen) and an Image its Event's equipmentId and locationId *)
(* (Gallery.capturePhoto).  No page adds a Timeline.                       *)
(***************************************************************************)
Filled(orgOf, siteOf, locOf, equipOf, eventOf) ==
    [organizations |-> {Organization(o) : o \in OrgIds},
     sites     |-> {Site(s, orgOf[s]) : s \in SiteIds},
     locations |-> {Room(l, siteOf[l]) : l \in RoomIds},
     equipment |-> {Equipment(q, locOf[q], NONE) : q \in EquipmentIds},
     events    |-> {SupportEvent(e, equipOf[e], locOf[equipOf[e]], NONE) : e \in EventIds},
     images    |-> {IF eventOf[i] = NONE
                    THEN GalleryImage(i, NONE, NONE, NONE, NONE)
                    ELSE GalleryImage(i, eventOf[i], equipOf[eventOf[i]],
                                      locOf[equipOf[eventOf[i]]], NONE) : i \in ImageIds},
     timelines |-> {}]

Init ==
    /\ verno = 2
    /\ \E orgOf \in [SiteIds -> OrgIds], siteOf \in [RoomIds -> SiteIds],
          locOf \in [EquipmentIds -> RoomIds], equipOf \in [EventIds -> EquipmentIds],
          eventOf \in [ImageIds -> EventIds \cup {NONE}] :
          db = Filled(orgOf, siteOf, locOf, equipOf, eventOf)
    /\ open = Closed
    /\ snap = db
    /\ cascade = Idle
    /\ pre = db
    /\ nEdits = 0
    /\ nCascades = 0
    /\ origin = [verno |-> verno, db |-> db]
    /\ result = NoResult
    /\ NoSaves
    /\ camera = NoCamera

Next ==
    \/ OpenMigrated
    \/ \E h \in Handlers, x \in OrgIds \cup SiteIds \cup RoomIds \cup EquipmentIds \cup EventIds :
          StartCascade(h, x)
    \/ CascadeScan
    \/ CascadeDelete
    \/ CascadeTypeError
    \/ CascadeStorageError
    \/ CascadeReturn
    \/ \E q \in db.equipment, l \in RoomIds : EquipmentPageHandleSave(q, l)
    \/ \E e \in db.events, q \in db.equipment : EventsHandleSave(e, q)

Spec == Init /\ [][Next]_vars

(***************************************************************************)
(* The open of a persisted store, one version step at a time.  The store   *)
(* was left at version c by an earlier build: absent (0), the version-1    *)
(* layout (no organizations, no sites, locations without siteId), the      *)
(* version-2 layout, or already version 3.                                 *)
(***************************************************************************)
StoredVersions == 0..3

Absent == [t \in {} |-> {}]

\* the rows a version-1 build has written
FilledV1(locOf, equipOf, eventOf) ==
    [locations |-> {Room(l, NONE) : l \in RoomIds},
     equipment |-> {Equipment(q, locOf[q], NONE) : q \in EquipmentIds},
     events    |-> {SupportEvent(e, equipOf[e], locOf[equipOf[e]], NONE) : e \in EventIds},
     images    |-> {IF eventOf[i] = NONE
                    THEN GalleryImage(i, NONE, NONE, NONE, NONE)
                    ELSE GalleryImage(i, eventOf[i], equipOf[eventOf[i]],
                                      locOf[equipOf[eventOf[i]]], NONE) : i \in ImageIds},
     timelines |-> {}]

InitMigrate ==
    /\ verno \in StoredVersions
    /\ \E orgOf \in [SiteIds -> OrgIds], siteOf \in [RoomIds -> SiteIds],
          locOf \in [EquipmentIds -> RoomIds], equipOf \in [EventIds -> EquipmentIds],
          eventOf \in [ImageIds -> EventIds \cup {NONE}] :
          db = CASE verno = 0 -> Absent
                 [] verno = 1 -> FilledV1(locOf, equipOf, eventOf)
                 [] verno = 2 -> Filled(orgOf, siteOf, locOf, equipOf, eventOf)
                 [] verno = 3 -> Migrated(Filled(orgOf, siteOf, locOf, equipOf, eventOf), 2)
    /\ open = Closed
    /\ snap = db
    /\ cascade = Idle
    /\ pre = db
    /\ nEdits = 0
    /\ nCascades = 0
    /\ origin = [verno |-> verno, db |-> db]
    /\ result = NoResult
    /\ NoSaves
    /\ camera = NoCamera

NextMigrate ==
    \/ OpenStore
    \/ ApplyLayout
    \/ RunUpgradeStep
    \/ CommitVersion
    \/ FailVersion

SpecMigrate == InitMigrate /\ [][NextMigrate]_vars

(***************************************************************************)
(* The composite read helpers of db/index.ts, on the open store d.  A      *)
(* helper returns null (isNull) or the parent row with the child rows      *)
(* whose parent key is the id it was given.                                *)
(***************************************************************************)
\* await db.t.get(id): the row, if any
Get(d, t, x) == {r \in d[t] : r.id = x}

\* await db.t.where(f).equals(x).toArray()
WhereEquals(d, t, f, x) == {r \in d[t] : r[f] = x}

Returned(h, x, p, ys, ts) ==
    IF p = {}
    THEN [NoResult EXCEPT !.helper = h, !.id = x]
    ELSE [helper |-> h, id |-> x, isNull |-> FALSE, parent |-> p,
          children |-> ys, timelines |-> ts]

\* mutant: the equipment is looked up by the key of the locations schema
getRoomWithEquipmentByLocationId(d, x) ==
    Returned("getRoomWithEquipment", x, Get(d, "rooms", x),
             WhereEquals(d, "equipment", "locationId", x), {})

getRoomWithEquipment(d, x) ==
    Returned("getRoomWithEquipment", x, Get(d, "rooms", x),
             WhereEquals(d, "equipment", "roomId", x), {})

getEquipmentWithEvents(d, x) ==
    Returned("getEquipmentWithEvents", x, Get(d, "equipment", x),
             WhereEquals(d, "events", "equipmentId", x), {})

getEventWithImages(d, x) ==
    Returned("getEventWithImages", x, Get(d, "events", x),
             WhereEquals(d, "images", "eventId", x),
             WhereEquals(d, "timelines", "eventId", x))

getOrganizationWithSites(d, x) ==
    Returned("getOrganizationWithSites", x, Get(d, "organizations", x),
             WhereEquals(d, "sites", "organizationId", x), {})

getSiteWithRooms(d, x) ==
    Returned("getSiteWithRooms", x, Get(d, "sites", x),
             WhereEquals(d, "rooms", "siteId", x), {})

CallGetRoomWithEquipment(x) ==
    /\ verno = Latest
    /\ result' = getRoomWithEquipment(db, x)
    /\ UNCHANGED <<verno, db, open, snap, cascade, pre, nEdits, nCascades, origin>>
    /\ UNCHANGED <<saveVars, camera>>

CallGetEquipmentWithEvents(x) ==
    /\ verno = Latest
    /\ result' = getEquipmentWithEvents(db, x)
    /\ UNCHANGED <<verno, db, open, snap, cascade, pre, nEdits, nCascades, origin>>
    /\ UNCHANGED <<saveVars, camera>>

CallGetEventWithImages(x) ==
    /\ verno = Latest
    /\ result' = getEventWithImages(db, x)
    /\ UNCHANGED <<verno, db, open, snap, cascade, pre, nEdits, nCascades, origin>>
    /\ UNCHANGED <<saveVars, camera>>

CallGetOrganizationWithSites(x) ==
    /\ verno = Latest
    /\ result' = getOrganizationWithSites(db, x)
    /\ UNCHANGED <<verno, db, open, snap, cascade, pre, nEdits, nCascades, origin>>
    /\ UNCHANGED <<saveVars, camera>>

CallGetSiteWithRooms(x) ==
    /\ verno = Latest
    /\ result' = getSiteWithRooms(db, x)
    /\ UNCHANGED <<verno, db, open, snap, cascade, pre, nEdits, nCascades, origin>>
    /\ UNCHANGED <<saveVars, camera>>

\* the delete handlers of the pages of the rooms schema
RoomSchemaHandlers == {"Sites.handleDeleteConfirm", "Rooms.handleDeleteConfirm"}

\* a version-3 store, as the open leaves a filled version-2 store
InitRead ==
    /\ verno = 3
    /\ \E orgOf \in [SiteIds -> OrgIds], siteOf \in [RoomIds -> SiteIds],
          locOf \in [EquipmentIds -> RoomIds], equipOf \in [EventIds -> EquipmentIds],
          eventOf \in [ImageIds -> EventIds \cup {NONE}] :
          db = Migrated(Filled(orgOf, siteOf, locOf, equipOf, eventOf), 2)
    /\ open = Closed
    /\ snap = db
    /\ cascade = Idle
    /\ pre = db
    /\ nEdits = 0
    /\ nCascades = 0
    /\ origin = [verno |-> verno, db |-> db]
    /\ result = NoResult
    /\ NoSaves
    /\ camera = NoCamera

\* the helpers are called with the id of a row that is or was in the parent
\* table, or with an id of another table
NextRead ==
    \/ \E h \in RoomSchemaHandlers, x \in SiteIds \cup RoomIds : StartCascade(h, x)
    \/ CascadeScan
    \/ CascadeDelete
    \/ CascadeReturn
    \/ \E x \in RoomIds \cup OrgIds : CallGetRoomWithEquipment(x)
    \/ \E x \in EquipmentIds \cup OrgIds : CallGetEquipmentWithEvents(x)
    \/ \E x \in EventIds \cup OrgIds : CallGetEventWithImages(x)
    \/ \E x \in OrgIds \cup SiteIds : CallGetOrganizationWithSites(x)
    \/ \E x \in SiteIds \cup OrgIds : CallGetSiteWithRooms(x)

SpecRead == InitRead /\ [][NextRead]_vars

(***************************************************************************)
(* The version-3 upgrade procedure run on a store that an earlier,         *)
(* interrupted run of it has partly rewritten: some Locations are already  *)
(* in rooms, some rows already carry roomId.                               *)
(***************************************************************************)
\* the version-2 store d under the version-3 layout, with the Locations
\* copied and the rows of S rewritten
PartlyUpgraded(d, copied, S) ==
    [WithLayout(d, 3) EXCEPT
        !.rooms = {l \in d.locations : l.id \in copied},
        !.equipment = {IF q.id \in S THEN RenameLocationId(q) ELSE q : q \in d.equipment},
        !.events = {IF e.id \in S THEN RenameLocationId(e) ELSE e : e \in d.events},
        !.images = {IF i.id \in S THEN RenameLocationId(i) ELSE i : i \in d.images}]

\* the upgrade procedure is run on the store as it is: the rejection of
\* bulkAdd is not caught, the procedure ends with it
RunUpgradeAgain ==
    /\ open.status = "closed"
    /\ open' = [Closed EXCEPT !.status = IF BulkAddFails(db) THEN "failed" ELSE "ready",
                              !.from = verno, !.v = 3, !.upgradeLog = <<3>>]
    /\ db' = IF BulkAddFails(db) THEN db ELSE RunUpgrade(db, 1)
    /\ pre' = db
    /\ UNCHANGED <<verno, snap, cascade, nEdits, nCascades>>
    /\ UNCHANGED others

InitRerun ==
    /\ verno = 2
    /\ \E orgOf \in [SiteIds -> OrgIds], siteOf \in [RoomIds -> SiteIds],
          locOf \in [EquipmentIds -> RoomIds], equipOf \in [EventIds -> EquipmentIds],
          eventOf \in [ImageIds -> EventIds \cup {NONE}] :
          \E copied \in SUBSET RoomIds,
             S \in SUBSET (EquipmentIds \cup EventIds \cup ImageIds) :
             /\ origin = [verno |-> 2,
                          db |-> Filled(orgOf, siteOf, locOf, equipOf, eventOf)]
             /\ db = PartlyUpgraded(origin.db, copied, S)
    /\ open = Closed
    /\ snap = db
    /\ cascade = Idle
    /\ pre = db
    /\ nEdits = 0
    /\ nCascades = 0
    /\ result = NoResult
    /\ NoSaves
    /\ camera = NoCamera

NextRerun == RunUpgradeAgain

SpecRerun == InitRerun /\ [][NextRerun]_vars

(***************************************************************************)
(* Clear All Data of the export page, on a store of the locations schema   *)
(* and on one of the rooms schema.                                         *)
(***************************************************************************)
\* the user presses Clear All Data and answers the two confirm() prompts:
\* the handler returns at the first one declined
HandleClearData(first, second) ==
    /\ cascade.status = "idle"
    /\ nCascades < MaxCascades
    /\ cascade' = IF first /\ second
                  THEN [Idle EXCEPT !.handler = "Export.handleClearData",
                                    !.pc = 1, !.status = "running"]
                  ELSE [Idle EXCEPT !.handler = "Export.handleClearData",
                                    !.status = "done"]
    /\ pre' = db
    /\ nCascades' = nCascades + 1
    /\ UNCHANGED <<verno, db, open, snap, nEdits>>
    /\ UNCHANGED others

InitClear ==
    /\ verno \in {2, 3}
    /\ \E orgOf \in [SiteIds -> OrgIds], siteOf \in [RoomIds -> SiteIds],
          locOf \in [EquipmentIds -> RoomIds], equipOf \in [EventIds -> EquipmentIds],
          eventOf \in [ImageIds -> EventIds \cup {NONE}] :
          db = IF verno = 2 THEN Filled(orgOf, siteOf, locOf, equipOf, eventOf)
               ELSE Migrated(Filled(orgOf, siteOf, locOf, equipOf, eventOf), 2)
    /\ open = Closed
    /\ snap = db
    /\ cascade = Idle
    /\ pre = db
    /\ nEdits = 0
    /\ nCascades = 0
    /\ origin = [verno |-> verno, db |-> db]
    /\ result = NoResult
    /\ NoSaves
    /\ camera = NoCamera

NextClear ==
    \/ \E first, second \in BOOLEAN : HandleClearData(first, second)
    \/ CascadeDelete
    \/ CascadeTypeError
    \/ CascadeReturn

SpecClear == InitClear /\ [][NextClear]_vars

(***************************************************************************)
(* The add/edit dialogs of the pages.  Every page keeps editingId and the  *)
(* form; handleSave reads the clock once and either updates the row        *)
(* editingId with the form and updatedAt, or adds a row with a fresh id,   *)
(* the form, createdAt and updatedAt.  A save handler is described by the  *)
(* table it writes, the parent key its form holds, the table of the        *)
(* parent, and whether the Save button requires the parent key.            *)
(***************************************************************************)
Names == {"A", "B"}

\* what the user types into the name field of a dialog
Typed == {"B"}

SaveHandler(t, f, pt, req) ==
    [table |-> t, parentField |-> f, parentTable |-> pt, required |-> req]

DashboardHandleSaveOrg      == SaveHandler("organizations", "", "", FALSE)
DashboardHandleSaveSite     == SaveHandler("sites", "organizationId", "organizations", FALSE)
DashboardHandleSaveLocation == SaveHandler("locations", "siteId", "sites", FALSE)
OrganizationsHandleSave     == SaveHandler("organizations", "", "", FALSE)
SitesHandleSave             == SaveHandler("sites", "organizationId", "organizations", TRUE)
SitesHandleSaveRooms        == SaveHandler("sites", "organizationId", "organizations", FALSE)
RoomsHandleSave             == SaveHandler("rooms", "siteId", "sites", FALSE)
\* the form of the Locations page has no siteId
LocationsHandleSave         == SaveHandler("locations", "", "", FALSE)
EquipmentPageHandleSaveForm == SaveHandler("equipment", "locationId", "locations", TRUE)
EventsHandleSaveForm        == SaveHandler("events", "equipmentId", "equipment", TRUE)

SaveHandlers ==
    {"Dashboard.handleSaveOrg", "Dashboard.handleSaveSite",
     "Dashboard.handleSaveLocation", "Organizations.handleSave",
     "Sites.handleSave", "Sites.handleSave (rooms)", "Rooms.handleSave",
     "Locations.handleSave", "EquipmentPage.handleSave", "Events.handleSave"}

SaveOf(h) ==
    CASE h = "Dashboard.handleSaveOrg"      -> DashboardHandleSaveOrg
      [] h = "Dashboard.handleSaveSite"     -> DashboardHandleSaveSite
      [] h = "Dashboard.handleSaveLocation" -> DashboardHandleSaveLocation
      [] h = "Organizations.handleSave"     -> OrganizationsHandleSave
      [] h = "Sites.handleSave"             -> SitesHandleSave
      [] h = "Sites.handleSave (rooms)"     -> SitesHandleSaveRooms
      [] h = "Rooms.handleSave"             -> RoomsHandleSave
      [] h = "Locations.handleSave"         -> LocationsHandleSave
      [] h = "EquipmentPage.handleSave"     -> EquipmentPageHandleSaveForm
      [] h = "Events.handleSave"            -> EventsHandleSaveForm

\* the ids uuidv4() may return for a row of table t
Pool(t) ==
    CASE t = "organizations" -> OrgIds
      [] t = "sites"         -> SiteIds
      [] t \in {"locations", "rooms"} -> RoomIds
      [] t = "equipment"     -> EquipmentIds
      [] t = "events"        -> EventIds
      [] t = "images"        -> ImageIds

\* {...formData}: the fields of the form of page h
FormData(h, form) ==
    LET f == SaveOf(h).parentField
        own == [name |-> form.name]
        key == IF f = "" THEN own ELSE (f :> form.parent) @@ own
    IN  IF h = "Events.handleSave"
        THEN [locationId |-> form.locationId, status |-> form.status,
              startedAt |-> form.startedAt, completedAt |-> form.completedAt] @@ key
        ELSE key

\* the key fields a row of table t may lack (a field it lacks reads NONE)
Blank(t) ==
    CASE t = "sites" -> [organizationId |-> NONE]
      [] t \in {"locations", "rooms"} -> [siteId |-> NONE]
      [] t = "equipment" -> [locationId |-> NONE, roomId |-> NONE]
      [] t = "events" -> [equipmentId |-> NONE, locationId |-> NONE, roomId |-> NONE]
      [] OTHER -> [f \in {} |-> NONE]

\* mutant: updatedAt is taken from a second, later reading of the clock
NewRecordReadingClockTwice(h, id, form, t) ==
    [id |-> id, createdAt |-> t, updatedAt |-> t + 1] @@ FormData(h, form)
        @@ Blank(SaveOf(h).table)

\* { id: uuidv4(), ...formData, createdAt: now, updatedAt: now }
NewRecord(h, id, form, t) ==
    [id |-> id, createdAt |-> t, updatedAt |-> t] @@ FormData(h, form)
        @@ Blank(SaveOf(h).table)

\* mutant: createdAt is part of what the update supplies
UpdateFieldsWithCreatedAt(h, form, t) ==
    [updatedAt |-> t, createdAt |-> t] @@ FormData(h, form)

\* { ...formData, updatedAt: now }
UpdateFields(h, form, t) == [updatedAt |-> t] @@ FormData(h, form)

\* mutant: the row is written with put
AddWithPut == "put"

\* db.<table>.add(...)
AddOp == "add"

\* mutant: the row is written whether or not it is there
UpdateWithUpsert == "upsert"

\* db.<table>.update(editingId, ...)
UpdateOp == "update"

\* the store's add, update and put of one row: the table afterwards, or
\* Rejected when the operation fails
Rejected == {[id |-> NONE]}

AddRow(rows, row) == IF row.id \in Ids(rows) THEN Rejected ELSE rows \cup {row}

UpdateRow(rows, id, fields) ==
    IF id \notin Ids(rows) THEN Rejected
    ELSE {IF r.id = id THEN fields @@ r ELSE r : r \in rows}

PutRow(rows, row) == {r \in rows : r.id # row.id} \cup {row}

\* an update that would create the row it does not find
UpsertRow(rows, id, fields) ==
    IF id \notin Ids(rows) THEN rows \cup {fields @@ [id |-> id]}
    ELSE {IF r.id = id THEN fields @@ r ELSE r : r \in rows}

Write(op, rows, id, row) ==
    CASE op = "add"    -> AddRow(rows, row)
      [] op = "update" -> UpdateRow(rows, id, row)
      [] op = "put"    -> PutRow(rows, [id |-> id] @@ row)
      [] op = "upsert" -> UpsertRow(rows, id, row)

\* the form of a dialog opened for a new row
FormOf(h, p, n, l) ==
    [NoDialog EXCEPT !.handler = h, !.parent = p, !.name = n, !.locationId = l,
                     !.status = IF h = "Events.handleSave" THEN "scheduled" ELSE ""]

\* handleOpen() / openAddDialog(): the parent key comes from the route or
\* the filter of the page (the parent the page was entered for); the
\* Events page copies the locationId of the Equipment it finds
OpenAddDialog(h, p, n) ==
    /\ dialog = NoDialog
    /\ nSaves < MaxSaves
    /\ HasTable(db, SaveOf(h).table)
    /\ IF SaveOf(h).parentField = ""
       THEN /\ p = NONE
            /\ dialog' = FormOf(h, NONE, n, NONE)
       ELSE /\ HasTable(db, SaveOf(h).parentTable)
            /\ p \in Ids(db[SaveOf(h).parentTable])
            /\ dialog' = FormOf(h, p, n,
                   IF h = "Events.handleSave"
                   THEN (CHOOSE q \in db.equipment : q.id = p).locationId
                   ELSE NONE)
    /\ UNCHANGED <<verno, db, open, snap, cascade, pre, nEdits, nCascades,
                   origin, result, camera, now, outcome, nSaves>>

\* handleOpen(row) / openEditDialog(row), and the user's change of the name
OpenEditDialog(h, row, n) ==
    /\ dialog = NoDialog
    /\ nSaves < MaxSaves
    /\ HasTable(db, SaveOf(h).table)
    /\ row \in db[SaveOf(h).table]
    /\ dialog' =
         [handler |-> h, editingId |-> row.id,
          parent |-> IF SaveOf(h).parentField = "" THEN NONE
                     ELSE row[SaveOf(h).parentField],
          name |-> n,
          locationId  |-> IF h = "Events.handleSave" THEN row.locationId ELSE NONE,
          status      |-> IF h = "Events.handleSave" THEN row.status ELSE "",
          startedAt   |-> IF h = "Events.handleSave" THEN row.startedAt ELSE NONE,
          completedAt |-> IF h = "Events.handleSave" THEN row.completedAt ELSE NONE]
    /\ UNCHANGED <<verno, db, open, snap, cascade, pre, nEdits, nCascades,
                   origin, result, camera, now, outcome, nSaves>>

\* handleClose(): Cancel
HandleClose ==
    /\ dialog # NoDialog
    /\ dialog' = NoDialog
    /\ UNCHANGED <<verno, db, open, snap, cascade, pre, nEdits, nCascades,
                   origin, result, camera, now, outcome, nSaves>>

\* new Date(): what the clock reads when a handler runs, the last reading or
\* a later one
Readings == {t \in {now, now + 1} : t <= MaxClock}

\* a handler issues the store operation op on table t to add or to update
\* (what) the row id and awaits it: on a rejection the handler does not go
\* on (the dialog stays open)
Issue(what, op, t, id, row, closes) ==
    LET after == Write(op, db[t], id, row) IN
    /\ now' \in Readings
    /\ nSaves < MaxSaves
    /\ nSaves' = nSaves + 1
    /\ outcome' = [op |-> what, table |-> t, id |-> id, row |-> row,
                    ok |-> after # Rejected]
    /\ db' = IF after = Rejected THEN db ELSE [db EXCEPT ![t] = after]
    /\ dialog' = IF closes /\ after # Rejected THEN NoDialog ELSE dialog
    /\ UNCHANGED <<verno, open, snap, cascade, pre, nEdits, nCascades,
                   origin, result, camera>>

\* handleSave(), the Save button being enabled
HandleSave ==
    LET h == dialog.handler IN
    /\ h \in SaveHandlers
    /\ HasTable(db, SaveOf(h).table)
    /\ SaveOf(h).required => dialog.parent # NONE
    /\ IF dialog.editingId # NONE
       THEN Issue("update", UpdateOp, SaveOf(h).table, dialog.editingId,
                  UpdateFields(h, dialog, now'), TRUE)
       ELSE \E id \in Pool(SaveOf(h).table) :
                Issue("add", AddOp, SaveOf(h).table, id, NewRecord(h, id, dialog, now'), TRUE)

\* mutant: updatedAt is left out
StartFieldsWithoutUpdatedAt(t) == [status |-> "in_progress", startedAt |-> t]

\* { status: 'in_progress', startedAt: new Date(), updatedAt: new Date() }
StartFields(t) == [status |-> "in_progress", startedAt |-> t, updatedAt |-> t]

\* { status: 'completed', completedAt: new Date(), updatedAt: new Date() }
CompleteFields(t) == [status |-> "completed", completedAt |-> t, updatedAt |-> t]

\* mutant: Start is offered whatever the status
HandleStartEventAnyStatus(e) ==
    /\ e \in db.events
    /\ Issue("update", "update", "events", e.id, StartFields(now'), FALSE)

\* {event.status === 'scheduled' && ...} onClick={() => handleStartEvent(event)}
HandleStartEvent(e) ==
    /\ e \in db.events
    /\ e.status = "scheduled"
    /\ Issue("update", "update", "events", e.id, StartFields(now'), FALSE)

HandleCompleteEvent(e) ==
    /\ e \in db.events
    /\ e.status = "in_progress"
    /\ Issue("update", "update", "events", e.id,
             CompleteFields(now'), FALSE)

\* Gallery.updateCaption: { caption: newCaption || undefined }
UpdateCaption(i, c) ==
    /\ i \in db.images
    /\ c # i.caption
    /\ Issue("update", "update", "images", i.id, [caption |-> c], FALSE)

\* a row as a save handler has written it at time t
Saved(row, n, t) == [name |-> n, createdAt |-> t, updatedAt |-> t] @@ row

\* a version-2 store the pages have filled at the first reading of the clock
FilledAndNamed ==
    [organizations |-> {Saved(Organization(o), "A", 1) : o \in OrgIds},
     sites     |-> {Saved(Site(s, 101), "A", 1) : s \in SiteIds},
     locations |-> {Saved(Room(301, 201), "A", 1)},
     equipment |-> {Saved(Equipment(401, 301, NONE), "A", 1)},
     events    |-> {[status |-> "scheduled", startedAt |-> NONE, completedAt |-> NONE]
                    @@ Saved(SupportEvent(501, 401, 301, NONE), "A", 1)},
     images    |-> {[caption |-> "", createdAt |-> 1]
                    @@ GalleryImage(601, 501, 401, 301, NONE)},
     timelines |-> {}]

\* the store d after handleStartEvent on its Events at the first reading
Started(d) ==
    [d EXCEPT !.events = {StartFields(1) @@ e : e \in d.events}]

\* the store d after handleCompleteEvent on its started Events
Finished(d) ==
    [d EXCEPT !.events = {CompleteFields(1) @@ e : e \in Started(d).events}]

\* the store d after its Events were saved with status 'cancelled'
Cancelled(d) ==
    [d EXCEPT !.events = {[status |-> "cancelled"] @@ e : e \in d.events}]

InitSave ==
    /\ verno \in {2, 3}
    /\ \E filled \in {FilledAndNamed, Started(FilledAndNamed),
                      Finished(FilledAndNamed), Cancelled(FilledAndNamed)} :
          db = IF verno = 2 THEN filled ELSE Migrated(filled, 2)
    /\ open = Closed
    /\ snap = db
    /\ cascade = Idle
    /\ pre = db
    /\ nEdits = 0
    /\ nCascades = 0
    /\ origin = [verno |-> verno, db |-> db]
    /\ result = NoResult
    /\ NoSaves
    /\ camera = NoCamera

\* the delete handlers of the lists a Location or Room is edited from: the
\* row of the open edit dialog is deleted
DeletesWhileEditing == {"Locations.handleDelete", "Rooms.handleDeleteConfirm"}

NextSave ==
    \/ \E h \in SaveHandlers, p \in {NONE} \cup OrgIds \cup SiteIds \cup RoomIds \cup EquipmentIds,
          n \in Typed : OpenAddDialog(h, p, n)
    \/ \E h \in SaveHandlers, t \in DOMAIN db, n \in Typed :
          \E row \in db[t] : OpenEditDialog(h, row, n)
    \/ HandleClose
    \/ HandleSave
    \/ \E e \in db.events : HandleStartEvent(e)
    \/ \E e \in db.events : HandleCompleteEvent(e)
    \/ \E i \in db.images, c \in Names : UpdateCaption(i, c)
    \/ \E h \in DeletesWhileEditing :
          /\ dialog.editingId # NONE
          /\ Root(h) = SaveOf(dialog.handler).table
          /\ StartCascade(h, dialog.editingId)
    \/ CascadeDelete
    \/ CascadeReturn

SpecSave == InitSave /\ [][NextSave]_vars

(***************************************************************************)
(* The gallery page and the Timelines.  A Timeline keeps the ids of its    *)
(* Images in the list imageIds; no page adds or edits a Timeline, so the   *)
(* Timelines of the store are drawn at the start, with lists that may      *)
(* name Images deleted since.                                              *)
(***************************************************************************)
TimelineIds == {701}

\* the Images in the store at the start, and the ids uuidv4() hands out later
StoredImageIds == {601, 602}
NewImageIds == {603, 604}

\* the id of an Image deleted before the start
DeletedImageIds == {600}

Timeline(i, e, imgs) == [id |-> i, eventId |-> e, imageIds |-> imgs]

Range(q) == {q[k] : k \in DOMAIN q}

\* the lists a Timeline may keep: ids of Images stored or deleted, none
\* twice, in the order the Images were captured
ImageLists ==
    LET listed == StoredImageIds \cup DeletedImageIds IN
    {q \in UNION {[1..n -> listed] : n \in 0..Cardinality(listed)} :
        \A j, k \in DOMAIN q : j < k => q[j] < q[k]}

\* mutant: the ids of the list are returned whether or not the Image exists
getImagesForTimelineUnfiltered(d, x) ==
    LET timeline == Get(d, "timelines", x) IN
    IF timeline = {} THEN Returned("getImagesForTimeline", x, {}, {}, {})
    ELSE Returned("getImagesForTimeline", x, timeline,
                  {GalleryImage(i, NONE, NONE, NONE, NONE) :
                      i \in Range((CHOOSE t \in timeline : TRUE).imageIds)}, {})

\* const timeline = await db.timelines.get(timelineId);
\* if (!timeline) return null;
\* const images = await db.images.where('id').anyOf(timeline.imageIds).toArray();
getImagesForTimeline(d, x) ==
    LET timeline == Get(d, "timelines", x) IN
    IF timeline = {} THEN Returned("getImagesForTimeline", x, {}, {}, {})
    ELSE Returned("getImagesForTimeline", x, timeline,
                  Where(d, "images", "id",
                        Range((CHOOSE t \in timeline : TRUE).imageIds)), {})

CallGetImagesForTimeline(x) ==
    /\ verno = Latest
    /\ result' = getImagesForTimeline(db, x)
    /\ UNCHANGED <<verno, db, open, snap, cascade, pre, nEdits, nCascades, origin>>
    /\ UNCHANGED <<saveVars, camera>>

\* Gallery.handleDelete: await db.images.delete(id)
GalleryHandleDelete(id) ==
    /\ verno = Latest
    /\ id \in Ids(db.images)
    /\ db' = [db EXCEPT !.images = {i \in @ : i.id # id}]
    /\ UNCHANGED <<verno, open, snap, cascade, pre, nEdits, nCascades>>
    /\ UNCHANGED others

\* uuidv4(): an id no Image has had
FreshImageId ==
    Min({i \in NewImageIds : i > Max(Ids(db.images) \cup {outcome.id, 0})})

\* events?.find((e) => e.id === selectedEvent)
FoundEvent(selectedEvent) == {e \in db.events : e.id = selectedEvent}

\* { id: uuidv4(), eventId: selectedEvent || undefined,
\*   equipmentId: event?.equipmentId, locationId: event?.locationId, ... }
TaggedImage(selectedEvent, filename, t) ==
    LET event == FoundEvent(selectedEvent) IN
    [filename |-> filename, capturedAt |-> t, createdAt |-> t] @@
    GalleryImage(FreshImageId, selectedEvent,
                 IF event = {} THEN NONE ELSE (CHOOSE e \in event : TRUE).equipmentId,
                 IF event = {} THEN NONE ELSE (CHOOSE e \in event : TRUE).locationId,
                 NONE)

\* Gallery.capturePhoto, the frame having been encoded: db.images.add(image)
CapturePhoto(selectedEvent) ==
    /\ verno = Latest
    /\ \E i \in NewImageIds : i > Max(Ids(db.images) \cup {outcome.id, 0})
    /\ Issue("add", AddOp, "images", FreshImageId,
             TaggedImage(selectedEvent, "photo", now'), FALSE)

\* Gallery.handleFileUpload with one image file chosen: db.images.add(image)
HandleFileUpload(selectedEvent) ==
    /\ verno = Latest
    /\ \E i \in NewImageIds : i > Max(Ids(db.images) \cup {outcome.id, 0})
    /\ Issue("add", AddOp, "images", FreshImageId,
             TaggedImage(selectedEvent, "file", now'), FALSE)

\* a version-3 store with Images of the Events and of no Event, captured at
\* the first reading of the clock, and with or without a Timeline
InitGallery ==
    /\ verno = 3
    /\ \E kept \in SUBSET StoredImageIds,
          eventOf \in [StoredImageIds -> {Min(EventIds), NONE}],
          timelines \in SUBSET TimelineIds, imgs \in ImageLists :
          LET locOf == [q \in EquipmentIds |-> IF q = Min(EquipmentIds)
                                               THEN Min(RoomIds) ELSE Max(RoomIds)]
              equipOf == [e \in EventIds |-> IF e = Min(EventIds)
                                             THEN Min(EquipmentIds) ELSE Max(EquipmentIds)]
          IN
          /\ \A i \in StoredImageIds \ kept : eventOf[i] = NONE
          /\ timelines = {} => imgs = <<>>
          /\ db = [Migrated(Filled([s \in SiteIds |-> Min(OrgIds)],
                                   [l \in RoomIds |-> Min(SiteIds)],
                                   locOf, equipOf, [i \in ImageIds |-> NONE]), 2)
                     EXCEPT !.images =
                                {[filename |-> "photo", capturedAt |-> 1, createdAt |-> 1]
                                 @@ (IF eventOf[i] = NONE
                                     THEN GalleryImage(i, NONE, NONE, NONE, NONE)
                                     ELSE GalleryImage(i, eventOf[i], equipOf[eventOf[i]],
                                              NONE, locOf[equipOf[eventOf[i]]])) :
                                    i \in kept},
                            !.timelines = {Timeline(t, Min(EventIds), imgs) :
                                              t \in timelines}]
    /\ open = Closed
    /\ snap = db
    /\ cascade = Idle
    /\ pre = db
    /\ nEdits = 0
    /\ nCascades = 0
    /\ origin = [verno |-> verno, db |-> db]
    /\ result = NoResult
    /\ NoSaves
    /\ camera = NoCamera

\* the helper is called with the id of a Timeline or with another id
NextGallery ==
    \/ \E id \in StoredImageIds \cup NewImageIds : GalleryHandleDelete(id)
    \/ \E selectedEvent \in {Min(EventIds), NONE} : CapturePhoto(selectedEvent)
    \/ \E selectedEvent \in {Min(EventIds), NONE} : HandleFileUpload(selectedEvent)
    \/ \E x \in TimelineIds \cup {Min(EventIds)} : CallGetImagesForTimeline(x)

SpecGallery == InitGallery /\ [][NextGallery]_vars

(***************************************************************************)
(* The camera page (pages/Camera.tsx) and its hook (hooks/useCamera.ts).   *)
(* A step is what runs between two awaits or callbacks, together with the  *)
(* render it causes and the effect cleanups of that render.  start() and   *)
(* stop() of useCamera are closures: stop() stops the stream of the render *)
(* it was created in, and the cleanup of the effect on [stream] stops the  *)
(* stream of the render it belongs to when stream changes or the           *)
(* component goes away.  A state update of a component that has gone away  *)
(* does nothing.  Streams are numbered in the order getUserMedia hands     *)
(* them out.                                                               *)
(***************************************************************************)
\* how many times one mounted page calls start(), and how many callbacks of
\* one kind are pending at a time
MaxStarts == 2
MaxPending == 1

\* the variables the camera page leaves alone
storeVars ==
    <<verno, db, open, snap, cascade, pre, nEdits, nCascades, origin, result,
      saveVars>>

\* start(): setError(null); setIsReady(false); await getUserMedia(...)
Start(c) ==
    [c EXCEPT !.error = FALSE, !.isReady = FALSE,
              !.requests = @ + 1, !.starts = @ + 1]

\* stop() of the render whose stream was closure: if (stream) { stop its
\* tracks; setStream(null); setIsReady(false) }, and the cleanup of the
\* effect on [stream] that the change of stream runs
Stop(c, closure) ==
    IF closure = NONE THEN c
    ELSE [c EXCEPT !.live = @ \ {closure, c.stream},
                   !.stream = NONE, !.isReady = FALSE]

\* the viewfinder, rendered in mode INITIAL only, is taken off the page
WithoutVideo(c) == [c EXCEPT !.video = NONE, !.awaiting = FALSE]

\* the component goes away: the cleanup of the mount effect calls the
\* stop() of the first render, whose stream is null, and the cleanup of
\* the effect on [stream] stops the stream of the last render
Unmounted(c) ==
    WithoutVideo([c EXCEPT !.mounted = FALSE, !.live = @ \ {c.stream},
                           !.stream = NONE])

\* the browser grants the request: setStream(mediaStream), and with the
\* viewfinder on the page srcObject = mediaStream and the wait for
\* loadedmetadata
GetUserMediaResolves ==
    LET s == camera.acquired + 1 IN
    /\ camera.requests > 0
    /\ camera' =
         IF camera.mounted
         THEN [camera EXCEPT !.requests = @ - 1, !.acquired = s,
                             !.live = (@ \cup {s}) \ {camera.stream},
                             !.stream = s,
                             !.video = IF camera.mode = "INITIAL" THEN s ELSE @,
                             !.awaiting = IF camera.mode = "INITIAL" THEN TRUE ELSE @]
         ELSE [camera EXCEPT !.requests = @ - 1, !.acquired = s,
                             !.live = @ \cup {s}]
    /\ UNCHANGED storeVars

\* the request is refused: catch (err) { setError(...) }
GetUserMediaRejects ==
    /\ camera.requests > 0
    /\ camera' = [camera EXCEPT !.requests = @ - 1,
                                !.error = IF camera.mounted THEN TRUE ELSE @]
    /\ UNCHANGED storeVars

\* handleLoadedMetadata: resolve(); setIsReady(true)
LoadedMetadata ==
    /\ camera.awaiting
    /\ camera.video \in camera.live
    /\ camera' = [camera EXCEPT !.awaiting = FALSE, !.isReady = TRUE]
    /\ UNCHANGED storeVars

\* handleCapture, the button being enabled: await capture()
HandleCapture ==
    /\ camera.mounted
    /\ camera.mode = "INITIAL"
    /\ camera.isReady
    /\ Cardinality(camera.captures) < MaxPending
    /\ camera' = [camera EXCEPT !.captures = @ \cup {camera.stream}]
    /\ UNCHANGED storeVars

\* setCapturedImage(img); setImageDataUrl(img.src); setMode('CROP'); stop()
Captured(c, closure) ==
    IF c.mounted
    THEN WithoutVideo(Stop([c EXCEPT !.capturedImage = TRUE, !.mode = "CROP"],
                           closure))
    ELSE c

\* img.onload of capture(): handleCapture goes on
CaptureLoads(closure) ==
    /\ closure \in camera.captures
    /\ camera' = Captured([camera EXCEPT !.captures = @ \ {closure}], closure)
    /\ UNCHANGED storeVars

\* img.onerror of capture(): capture() returns null
CaptureFails(closure) ==
    /\ closure \in camera.captures
    /\ camera' = [camera EXCEPT !.captures = @ \ {closure}]
    /\ UNCHANGED storeVars

\* handleFileSelect, the file input being shown with the camera error
HandleFileSelect ==
    /\ camera.mounted
    /\ camera.mode = "INITIAL"
    /\ camera.error
    /\ Cardinality(camera.files) < MaxPending
    /\ camera' = [camera EXCEPT !.files = @ \cup {camera.stream}]
    /\ UNCHANGED storeVars

\* reader.onload and img.onload of handleFileSelect
FileLoads(closure) ==
    /\ closure \in camera.files
    /\ camera' = Captured([camera EXCEPT !.files = @ \ {closure}], closure)
    /\ UNCHANGED storeVars

\* handleDone (Done, Enter): canvas.toBlob(callback)
HandleDone ==
    /\ camera.mounted
    /\ camera.mode = "CROP"
    /\ camera.capturedImage
    /\ camera.blobs < MaxPending
    /\ camera' = [camera EXCEPT !.blobs = @ + 1]
    /\ UNCHANGED storeVars

\* the callback of toBlob with a blob: setCroppedBlob(blob);
\* setPreviewUrl(...); setMode('PREVIEW')
BlobReady ==
    /\ camera.blobs > 0
    /\ camera' =
         IF camera.mounted
         THEN [camera EXCEPT !.blobs = @ - 1, !.croppedBlob = TRUE,
                             !.previewUrl = TRUE, !.mode = "PREVIEW"]
         ELSE [camera EXCEPT !.blobs = @ - 1]
    /\ UNCHANGED storeVars

\* the callback of toBlob with null
BlobFails ==
    /\ camera.blobs > 0
    /\ camera' = [camera EXCEPT !.blobs = @ - 1]
    /\ UNCHANGED storeVars

\* handleRetake (Retake, Escape)
HandleRetake ==
    /\ camera.mounted
    /\ camera.mode \in {"CROP", "PREVIEW"}
    /\ camera.starts < MaxStarts
    /\ camera' = Start([camera EXCEPT !.capturedImage = FALSE,
                                      !.croppedBlob = FALSE,
                                      !.previewUrl = FALSE,
                                      !.mode = "INITIAL"])
    /\ UNCHANGED storeVars

\* handleSave (Save, Enter): if (croppedBlob) navigate(-1)
HandleSaveImage ==
    /\ camera.mounted
    /\ camera.mode = "PREVIEW"
    /\ camera.croppedBlob
    /\ camera' = Unmounted(camera)
    /\ UNCHANGED storeVars

\* handleBack (Cancel): stop(); navigate(-1)
HandleBack ==
    /\ camera.mounted
    /\ camera.mode = "INITIAL"
    /\ camera' = Unmounted(Stop(camera, camera.stream))
    /\ UNCHANGED storeVars

\* the route changes otherwise (the browser's Back)
NavigateAway ==
    /\ camera.mounted
    /\ camera' = Unmounted(camera)
    /\ UNCHANGED storeVars

\* the page has just been mounted: the mount effect has called start()
InitCamera ==
    /\ verno = 3
    /\ db = Migrated(FilledAndNamed, 2)
    /\ open = Closed
    /\ snap = db
    /\ cascade = Idle
    /\ pre = db
    /\ nEdits = 0
    /\ nCascades = 0
    /\ origin = [verno |-> verno, db |-> db]
    /\ result = NoResult
    /\ NoSaves
    /\ camera = Start([NoCamera EXCEPT !.mounted = TRUE])

NextCamera ==
    \/ GetUserMediaResolves
    \/ GetUserMediaRejects
    \/ LoadedMetadata
    \/ HandleCapture
    \/ \E closure \in camera.captures : CaptureLoads(closure)
    \/ \E closure \in camera.captures : CaptureFails(closure)
    \/ HandleFileSelect
    \/ \E closure \in camera.files : FileLoads(closure)
    \/ HandleDone
    \/ BlobReady
    \/ BlobFails
    \/ HandleRetake
    \/ HandleSaveImage
    \/ HandleBack
    \/ NavigateAway

SpecCamera == InitCamera /\ [][NextCamera]_vars

\* what the browser has pending it settles: the request for the camera, the
\* events of the viewfinder and of the images, the encoding of the blob
SettlesPending ==
    \/ GetUserMediaResolves
    \/ GetUserMediaRejects
    \/ LoadedMetadata
    \/ \E closure \in camera.captures : CaptureLoads(closure)
    \/ \E closure \in camera.captures : CaptureFails(closure)
    \/ \E closure \in camera.files : FileLoads(closure)
    \/ BlobReady
    \/ BlobFails

SpecCameraSettling == SpecCamera /\ WF_vars(SettlesPending)

(***************************************************************************)
(* Vocabulary of the properties.                                           *)
(***************************************************************************)
\* the Room table of a store: rooms, or locations before version 3
RoomTable(d) ==
    IF HasTable(d, "rooms") THEN d.rooms
    ELSE IF HasTable(d, "locations") THEN d.locations ELSE {}

\* the Room (Location) a row names as its parent
RoomOf(r) == IF r.roomId # NONE THEN r.roomId ELSE r.locationId

\* children by parent key, as sets of ids
SitesUnder(d, O) == Ids({s \in d.sites : s.organizationId \in O})
RoomsUnder(d, S) == Ids({r \in RoomTable(d) : r.siteId \in S})
EquipmentUnder(d, R) == Ids({q \in d.equipment : RoomOf(q) \in R})
EventsUnder(d, Q) == Ids({e \in d.events : e.equipmentId \in Q})
ImagesUnder(d, E) == Ids({i \in d.images : i.eventId \in E})
TimelinesUnder(d, E) == Ids({t \in d.timelines : t.eventId \in E})

\* the delete handler in flight has returned normally
Completed(hs) == cascade.status = "done" /\ cascade.handler \in hs

\* nothing is left of what was, when the handler started, below ...
NoneLeftBelowEvents(E) ==
    /\ Ids(db.images) \cap ImagesUnder(pre, E) = {}
    /\ Ids(db.timelines) \cap TimelinesUnder(pre, E) = {}

NoneLeftBelowEquipment(Q) ==
    /\ Ids(db.events) \cap EventsUnder(pre, Q) = {}
    /\ NoneLeftBelowEvents(EventsUnder(pre, Q))

NoneLeftBelowRooms(R) ==
    /\ Ids(db.equipment) \cap EquipmentUnder(pre, R) = {}
    /\ NoneLeftBelowEquipment(EquipmentUnder(pre, R))

NoneLeftBelowSites(S) ==
    /\ Ids(RoomTable(db)) \cap RoomsUnder(pre, S) = {}
    /\ NoneLeftBelowRooms(RoomsUnder(pre, S))

NoneLeftBelowOrganizations(O) ==
    /\ Ids(db.sites) \cap SitesUnder(pre, O) = {}
    /\ NoneLeftBelowSites(SitesUnder(pre, O))

OrganizationHandlers == {"Organizations.handleDelete", "Dashboard.handleDelete.org"}
SiteHandlers ==
    {"Sites.handleDeleteConfirm", "Sites.handleDelete", "Dashboard.handleDelete.site"}
RoomHandlers == {"Rooms.handleDeleteConfirm", "Dashboard.handleDelete.location"}

\* C1: after the Organization delete handler has completed for O, O is gone
\* and no Site, Room, Equipment, Event or Image of O's subtree remains.
C1_OrganizationCascadeComplete ==
    Completed(OrganizationHandlers) =>
        /\ cascade.id \notin Ids(db.organizations)
        /\ NoneLeftBelowOrganizations({cascade.id})

\* C2: after the Site delete handler has completed for S, S is gone and no
\* Room of S, no Equipment of those Rooms, no Event of that Equipment and no
\* Image or Timeline of those Events remains.
C2_SiteCascadeComplete ==
    Completed(SiteHandlers) =>
        /\ cascade.id \notin Ids(db.sites)
        /\ NoneLeftBelowSites({cascade.id})

\* C3: after the Room delete handler has completed for R, R is gone and no
\* Equipment of R, no Event of that Equipment and no Image or Timeline of
\* those Events remains.
C3_RoomCascadeComplete ==
    Completed(RoomHandlers) =>
        /\ cascade.id \notin Ids(RoomTable(db))
        /\ NoneLeftBelowRooms({cascade.id})

\* the rows of table t that belong to the subtree of Room R in store d: R
\* itself and every row that names R, an Equipment of R or an Event of R as
\* its parent (Events and Images carry copies of the ancestor keys)
SubtreeOfRoom(d, R, t) ==
    LET Q == EquipmentUnder(d, {R})
        E == Ids({e \in d.events : RoomOf(e) = R \/ e.equipmentId \in Q})
    IN  CASE t \in {"rooms", "locations"} -> {r \in d[t] : r.id = R}
          [] t = "equipment" -> {q \in d[t] : q.id \in Q}
          [] t = "events"    -> {e \in d[t] : e.id \in E}
          [] t = "images"    -> {i \in d[t] : \/ RoomOf(i) = R
                                               \/ i.equipmentId \in Q
                                               \/ i.eventId \in E}
          [] t = "timelines" -> {x \in d[t] : x.eventId \in E}
          [] OTHER -> {}

Gone(t) == IF HasTable(pre, t) /\ HasTable(db, t) THEN Ids(pre[t]) \ Ids(db[t]) ELSE {}
GoneRooms == Ids(RoomTable(pre)) \ Ids(RoomTable(db))

\* the parent row of row r of table t is a row this cascade has deleted
ParentGone(t, r) ==
    CASE t = "sites"     -> r.organizationId \in Gone("organizations")
      [] t \in {"rooms", "locations"} -> r.siteId \in Gone("sites")
      [] t = "equipment" -> RoomOf(r) \in GoneRooms
      [] t = "events"    -> r.equipmentId \in Gone("equipment")
      [] t \in {"images", "timelines"} -> r.eventId \in Gone("events")
      [] OTHER -> FALSE

\* the operations the handler in flight has still to issue
PendingOps ==
    {Program(cascade.handler)[j] : j \in cascade.pc..Len(Program(cascade.handler))}

\* C5: in every cascade delete handler the deletes of child rows are issued
\* before the delete of their parent row: in no intermediate state of a
\* cascade is a child row the handler deletes still there while its parent
\* row has already been deleted by the cascade.
C5_ChildrenDeletedFirst ==
    cascade.status = "running" =>
        \A o \in PendingOps :
            (o.op = "delete" /\ HasTable(db, o.table)) =>
                \A r \in Where(db, o.table, o.field, Operand(o.from)) :
                    ~ParentGone(o.table, r)

\* C6: after the Equipment delete handler has completed for Q, Q is gone and
\* no Event of Q and no Image or Timeline of those Events remains.
C6_EquipmentCascadeComplete ==
    Completed({"EquipmentPage.handleDelete"}) =>
        /\ cascade.id \notin Ids(db.equipment)
        /\ NoneLeftBelowEquipment({cascade.id})

IsPrefix(a, b) == Len(a) <= Len(b) /\ \A i \in 1..Len(a) : a[i] = b[i]

\* the versions after c up to 3, ascending
Ascending(c) == [i \in 1..(3 - c) |-> c + i]

\* C8: opening a store whose recorded version is c applies the layout and the
\* upgrade procedure of exactly the versions v with c < v <= 3, each once and
\* in ascending order: while the open runs the versions applied so far are an
\* initial part of c+1..3, and when it is ready they are all of c+1..3, the
\* only upgrade procedure (version 3's) having been entered once.
C8_AppliesPendingVersionsAscending ==
    /\ open.status # "closed" =>
          /\ IsPrefix(open.layoutLog, Ascending(open.from))
          /\ IsPrefix(open.commitLog, Ascending(open.from))
          /\ IsPrefix(open.upgradeLog, IF open.from < 3 THEN <<3>> ELSE <<>>)
    /\ open.status = "ready" =>
          /\ open.layoutLog = Ascending(open.from)
          /\ open.commitLog = Ascending(open.from)
          /\ open.upgradeLog = (IF open.from < 3 THEN <<3>> ELSE <<>>)
          /\ verno = 3

\* an open of a version-1 store with rows in it has finished
C8_Witness ==
    /\ open.status = "ready"
    /\ open.from = 1
    /\ open.commitLog = <<2, 3>>
    /\ db.rooms # {}

\* C9: opening a store that is already at version 3 does nothing: no layout
\* is applied, the version-3 upgrade procedure is not entered, the recorded
\* version stays 3 and every table is as it was before the open.
C9_OpenAtLatestIsNoOp ==
    (open.status # "closed" /\ open.from = 3) =>
        /\ open.status = "ready"
        /\ open.layoutLog = <<>>
        /\ open.upgradeLog = <<>>
        /\ open.commitLog = <<>>
        /\ verno = 3
        /\ db = pre

\* a version-3 store with rooms and equipment in it has been opened
C9_Witness ==
    /\ open.status = "ready"
    /\ open.from = 3
    /\ db.rooms # {}
    /\ \E q \in db.equipment : q.roomId # NONE

\* the last element of a non-empty sequence
Last(q) == q[Len(q)]

\* C10: each version step is atomic: after a failure in the step of version
\* v the store is as the last completed step left it (no table of v created
\* or removed, no row copied, no field rewritten), the recorded version is
\* not v, and it is the version of the last completed step of this open, or
\* the version the open started from.
C10_VersionStepAtomic ==
    open.status = "failed" =>
        /\ db = open.committed
        /\ verno # open.v
        /\ verno = (IF open.commitLog = <<>> THEN open.from ELSE Last(open.commitLog))
        /\ DOMAIN db = (IF verno = 0 THEN {} ELSE DOMAIN Stores(verno))
        /\ open.v = 3 =>
              /\ ~HasTable(db, "rooms")
              /\ HasTable(db, "locations")
              /\ \A t \in {"equipment", "events", "images"} :
                    \A r \in db[t] : r.roomId = NONE

\* the version-3 step of an open of a version-1 store has failed after its
\* upgrade procedure had rewritten the equipment rows, version 2 committed
C10_Witness ==
    /\ open.status = "failed"
    /\ open.from = 1
    /\ open.v = 3
    /\ open.step > 2
    /\ open.commitLog = <<2>>
    /\ db.equipment # {}

\* the store d, at version c, migrated without interruption up to version t
RECURSIVE MigratedUpTo(_, _, _)
MigratedUpTo(d, c, t) ==
    IF {v \in Pending(c) : v <= t} = {} THEN d
    ELSE MigratedUpTo(VersionStep(d, Min(Pending(c))), Min(Pending(c)), t)

\* C11: after a migration step has failed the store is left at the last
\* successfully applied version (its recorded version, with the tables of
\* the launch store migrated up to that version and no further), and a later
\* open that does not fail ends at version 3 with the tables an
\* uninterrupted migration of the launch store has.
C11_ResumeAfterFailure ==
    /\ open.status = "failed" =>
          /\ verno = (IF open.commitLog = <<>> THEN open.from ELSE Last(open.commitLog))
          /\ db = MigratedUpTo(origin.db, origin.verno, verno)
    /\ (open.status = "ready" /\ open.retry) =>
          /\ verno = 3
          /\ db = MigratedUpTo(origin.db, origin.verno, 3)

\* an open of a version-1 store failed in the version-3 step, and the next
\* open, resumed from version 2, has finished
C11_Witness ==
    /\ open.status = "ready"
    /\ open.retry
    /\ origin.verno = 1
    /\ open.from = 2
    /\ open.commitLog = <<3>>
    /\ db.rooms # {}

\* an open has brought a version-1 or version-2 launch store to version 3
MigratedFromOld ==
    open.status = "ready" /\ verno = 3 /\ origin.verno \in {1, 2}

\* C12: after migrating a version-1 or version-2 store to version 3 the
\* rooms table holds exactly the rows locations held before, field for
\* field, there is no locations table, and organizations and sites hold
\* what they held before (nothing when migrating from version 1).
C12_LocationsBecomeRooms ==
    MigratedFromOld =>
        /\ db.rooms = origin.db.locations
        /\ ~HasTable(db, "locations")
        /\ db.organizations =
              (IF origin.verno = 1 THEN {} ELSE origin.db.organizations)
        /\ db.sites = (IF origin.verno = 1 THEN {} ELSE origin.db.sites)

\* a version-2 store with an Organization, a Site and Locations under the
\* Site has been migrated
C12_Witness ==
    /\ MigratedFromOld
    /\ origin.verno = 2
    /\ origin.db.organizations # {}
    /\ \E l \in origin.db.locations : l.siteId \in Ids(origin.db.sites)

\* the row r as the version-3 upgrade is to leave it
WithRoomId(r) ==
    IF r.locationId # NONE
    THEN [id |-> r.id, roomId |-> r.locationId, locationId |-> NONE] @@ r
    ELSE r

\* C13: after migrating to version 3 the equipment, events and images
\* tables hold the same row ids as before, every row that had a locationId
\* has roomId equal to it and no locationId, its other fields unchanged, and
\* the rows without locationId are unchanged.
C13_LocationIdBecomesRoomId ==
    MigratedFromOld =>
        \A t \in {"equipment", "events", "images"} :
            /\ Ids(db[t]) = Ids(origin.db[t])
            /\ Cardinality(db[t]) = Cardinality(origin.db[t])
            /\ \A r \in origin.db[t] : WithRoomId(r) \in db[t]

\* a migrated store with an Event that had a locationId and an Image that
\* had none
C13_Witness ==
    /\ MigratedFromOld
    /\ \E e \in origin.db.events : e.locationId # NONE
    /\ \E i \in origin.db.images : i.locationId = NONE /\ i \in db.images

(***************************************************************************)
(* The composite read helpers (SpecRead).                                  *)
(***************************************************************************)
\* the parent table, the child table and the parent key of each helper
Reads ==
    [getRoomWithEquipment     |-> <<"rooms", "equipment", "roomId">>,
     getEquipmentWithEvents   |-> <<"equipment", "events", "equipmentId">>,
     getEventWithImages       |-> <<"events", "images", "eventId">>,
     getOrganizationWithSites |-> <<"organizations", "sites", "organizationId">>,
     getSiteWithRooms         |-> <<"sites", "rooms", "siteId">>]

\* res is what helper res.helper is to return for res.id on store d
RightResult(d, res) ==
    LET parentTable == Reads[res.helper][1]
        childTable  == Reads[res.helper][2]
        key         == Reads[res.helper][3]
    IN  IF res.id \notin Ids(d[parentTable])
        THEN res.isNull
        ELSE /\ ~res.isNull
             /\ res.parent = {r \in d[parentTable] : r.id = res.id}
             /\ res.children = {c \in d[childTable] : c[key] = res.id}

\* C14: each composite read helper returns null when the parent id does not
\* exist, and otherwise the parent with exactly the rows of the child table
\* whose parent key equals the id (none when there are none): whenever a
\* helper returns, what it returns is right for the store it read.
C14_CompositeReads ==
    [][(result' # result) => RightResult(db, result')]_vars

\* getRoomWithEquipment has returned a Room with its Equipment, which is
\* not all the Equipment there is
C14_Witness ==
    /\ result.helper = "getRoomWithEquipment"
    /\ ~result.isNull
    /\ result.children # {}
    /\ result.children # db.equipment

(***************************************************************************)
(* The adds and updates of the pages (SpecSave).                           *)
(***************************************************************************)
\* a handler issues an add, or an update, in this step
Adds == nSaves' = nSaves + 1 /\ outcome'.op = "add"
Updates == nSaves' = nSaves + 1 /\ outcome'.op = "update"

\* the row with id x of a table
RowOf(rows, x) == CHOOSE r \in rows : r.id = x

\* C15: an add of a row whose id is already in the table fails, the caller
\* sees the failure (the handler does not go on to close its dialog), and
\* the table, the existing row included, is as it was: nothing is
\* overwritten.
C15_AddExistingIdFails ==
    [][(Adds /\ outcome'.id \in Ids(db[outcome'.table])) =>
          /\ ~outcome'.ok
          /\ db' = db
          /\ dialog' = dialog]_vars

\* an add has failed
C15_Witness ==
    /\ outcome.op = "add"
    /\ ~outcome.ok
    /\ outcome.id \in Ids(db[outcome.table])

\* C16: an update of an id that is not in the table fails, the caller sees
\* the failure, and no row is created; so it is for a save whose edited row
\* was deleted while the edit dialog was open.
C16_UpdateMissingIdFails ==
    [][(Updates /\ outcome'.id \notin Ids(db[outcome'.table])) =>
          /\ ~outcome'.ok
          /\ db' = db
          /\ dialog' = dialog]_vars

\* the save of an edit dialog has failed: its row had been deleted
C16_Witness ==
    /\ outcome.op = "update"
    /\ ~outcome.ok
    /\ dialog.editingId = outcome.id
    /\ outcome.id \notin Ids(db[outcome.table])

\* C17: right after a save handler has added a record, the table holds under
\* its id exactly the record the handler built from its form (the id, every
\* form field, createdAt the clock reading), with updatedAt equal to
\* createdAt.
C17_AddThenGet ==
    [][(Adds /\ outcome'.ok) =>
          LET t == outcome'.table
              got == Get(db', t, outcome'.id)
          IN  /\ Cardinality(got) = 1
              /\ \A r \in got :
                    /\ r.id = outcome'.id
                    /\ r.name = dialog.name
                    /\ SaveOf(dialog.handler).parentField # "" =>
                           r[SaveOf(dialog.handler).parentField] = dialog.parent
                    /\ r.createdAt = now'
                    /\ r.updatedAt = r.createdAt
                    /\ r = NewRecord(dialog.handler, outcome'.id, dialog, now')
              /\ db'[t] \ got = db[t]]_vars

\* an Event has been added under an Equipment
C17_Witness ==
    /\ outcome.op = "add"
    /\ outcome.ok
    /\ outcome.table = "events"
    /\ \E e \in db.events : e.id = outcome.id /\ e.equipmentId # NONE /\ e.createdAt = now

\* the fields of row r other than those of fs
Others(r, fs) == [f \in DOMAIN r \ fs |-> r[f]]

\* C18: an update of an existing record changes only the supplied fields:
\* afterwards the record has the supplied values, the same id, every other
\* field as before, and an updatedAt strictly greater than its previous
\* updatedAt; no other row of the table changes.
C18_UpdateChangesOnlySupplied ==
    [][(Updates /\ outcome'.ok) =>
          LET t == outcome'.table
              fields == outcome'.row
              old == RowOf(db[t], outcome'.id)
              new == RowOf(db'[t], outcome'.id)
          IN  /\ Ids(db'[t]) = Ids(db[t])
              /\ db'[t] \ {new} = db[t] \ {old}
              /\ new.id = old.id
              /\ DOMAIN new = DOMAIN old \cup DOMAIN fields
              /\ \A f \in DOMAIN fields : new[f] = fields[f]
              /\ Others(new, DOMAIN fields) = Others(old, DOMAIN fields)
              /\ "updatedAt" \in DOMAIN old => new.updatedAt > old.updatedAt]_vars

\* the tables a store has before and after a step
Kept == DOMAIN db \cap DOMAIN db'

\* C19: the createdAt of a record never changes once the record is added,
\* whatever is saved, started, completed or captioned; and each of these
\* mutations of a record that has an updatedAt sets it to the time of the
\* mutation (an Image has none).
C19_CreatedAtKeptUpdatedAtRefreshed ==
    [][/\ \A t \in Kept : \A r \in db[t] : \A q \in db'[t] :
             (q.id = r.id /\ "createdAt" \in DOMAIN r) =>
                 ("createdAt" \in DOMAIN q /\ q.createdAt = r.createdAt)
       /\ (Updates /\ outcome'.ok) =>
             LET new == RowOf(db'[outcome'.table], outcome'.id)
             IN  "updatedAt" \in DOMAIN new => new.updatedAt = now']_vars

\* a record added earlier has been mutated at a later time
C19_Witness ==
    /\ outcome.op = "update"
    /\ outcome.ok
    /\ outcome.table # "images"
    /\ \E r \in db[outcome.table] :
          r.id = outcome.id /\ r.createdAt = 1 /\ r.updatedAt = now /\ now > 1

\* the table and the id a row of table t names as its parent
ParentKeyOf(t, row) ==
    CASE t = "sites"     -> <<"organizations", row.organizationId>>
      [] t = "locations" -> <<"sites", row.siteId>>
      [] t = "rooms"     -> <<"sites", row.siteId>>
      [] t = "equipment" -> IF row.roomId # NONE THEN <<"rooms", row.roomId>>
                            ELSE <<"locations", row.locationId>>
      [] t = "events"    -> <<"equipment", row.equipmentId>>

\* C20: every Site, Room or Location, Equipment and Event a save handler
\* adds has a parent key (organizationId, siteId, roomId or locationId,
\* equipmentId) that is the id of a row of the parent table at the moment
\* of the add: none is created with an empty, missing or dangling key.
C20_AddedUnderExistingParent ==
    [][(Adds /\ outcome'.ok /\ outcome'.table \notin {"organizations", "images"}) =>
          LET key == ParentKeyOf(outcome'.table, outcome'.row)
          IN  /\ key[2] # NONE
              /\ HasTable(db, key[1])
              /\ key[2] \in Ids(db[key[1]])]_vars

(***************************************************************************)
(* The recorded version (SpecMigrate).                                     *)
(***************************************************************************)
\* C30: the recorded store version is always one of 0, 1, 2, 3, it never
\* decreases over any sequence of opens, failed ones included, and it is 3
\* after every open that succeeds.
C30_RecordedVersionMonotone ==
    /\ [](/\ verno \in {0, 1, 2, 3}
          /\ open.status = "ready" => verno = 3)
    /\ [][verno' >= verno]_vars

\* an open that began at version 0 has failed after it recorded version 2,
\* and the open after it has succeeded
C30_Witness ==
    /\ open.status = "ready"
    /\ open.retry
    /\ origin.verno = 0
    /\ open.from = 2
    /\ verno = 3

(***************************************************************************)
(* A cascade delete that fails (Spec).                                     *)
(***************************************************************************)
\* the row the handler in flight was called for is in its table
RootPresent(c, d) == HasTable(d, Root(c.handler)) /\ c.id \in Ids(d[Root(c.handler)])

\* C22: when step k of a cascade delete fails, the deletes issued before k
\* stay applied (the failure changes no table and no deleted row comes
\* back), no step after k is executed and none is retried (the handler
\* only returns), and the root row of the cascade is still present.
C22_FailedCascadeStopsWhereItFailed ==
    [][/\ (cascade.status = "running" /\ cascade'.status = "failed") =>
             /\ db' = db
             /\ cascade'.pc = cascade.pc
       /\ cascade.status = "failed" =>
             /\ cascade' \in {cascade, Idle}
             /\ \A t \in DOMAIN db : HasTable(db', t) /\ Ids(db'[t]) = Ids(db[t])
       /\ cascade'.status = "failed" => RootPresent(cascade', db')]_vars

(***************************************************************************)
(* The status of an Event (SpecSave).                                      *)
(***************************************************************************)
\* an update of an Event that is not the save of its edit dialog: Start or
\* Complete
StartsOrCompletes ==
    /\ Updates
    /\ outcome'.ok
    /\ outcome'.table = "events"
    /\ "name" \notin DOMAIN outcome'.row

C23_ClearAllDataEmptiesTheStore ==
    (cascade.handler = "Export.handleClearData" /\ cascade.status \in {"done", "failed"}) =>
        IF cascade.pc > 0
        THEN \A t \in DOMAIN db : db[t] = {}
        ELSE db = pre

RightTimelineResult(d, res) ==
    IF \A t \in d.timelines : t.id # res.id
    THEN res.isNull
    ELSE /\ ~res.isNull
         /\ res.parent = {t \in d.timelines : t.id = res.id}
         /\ \A t \in res.parent :
               res.children =
                   {i \in d.images : \E k \in DOMAIN t.imageIds : t.imageIds[k] = i.id}

\* C21: a step that deletes an Image leaves every Timeline row, its imageIds
\* list included, as it was; getImagesForTimeline returns null when the
\* Timeline does not exist and otherwise exactly the Images now in the store
\* whose id is in the Timeline's list, the ids of deleted Images being left out.
C21_DeletedImagesStayListed ==
    [][/\ (Ids(db'.images) \subseteq Ids(db.images) /\ db'.images # db.images)
            => db'.timelines = db.timelines
       /\ (result' # result /\ result'.helper = "getImagesForTimeline")
            => RightTimelineResult(db', result')]_vars

\* the helper has returned a Timeline whose list names an Image deleted on
\* the gallery page and an Image still stored: only the latter is returned
C21_Witness ==
    /\ result.helper = "getImagesForTimeline"
    /\ ~result.isNull
    /\ result.children # {}
    /\ \E t \in db.timelines :
          /\ t \in result.parent
          /\ \E k \in DOMAIN t.imageIds :
                /\ t.imageIds[k] \in Ids(origin.db.images) \ Ids(db.images)
                /\ t.imageIds[k] \notin Ids(result.children)
          /\ t \in origin.db.timelines

(***************************************************************************)
(* Images tagged to an Event                                               *)
(***************************************************************************)
\* C24: every Image the gallery page adds (camera capture or file upload)
\* with an eventId set carries, at the add, the equipmentId and the roomId of
\* that Event, so that the scans of the version-3 store by equipmentId and by
\* roomId find it.
C24_TaggedImageCarriesEventKeys ==
    [][(/\ outcome' # outcome
        /\ outcome'.op = "add"
        /\ outcome'.table = "images"
        /\ outcome'.ok
        /\ outcome'.row.eventId # NONE)
          => \A e \in db.events :
                e.id = outcome'.row.eventId =>
                   /\ outcome'.row.equipmentId = e.equipmentId
                   /\ outcome'.row.roomId = e.roomId
                   /\ outcome'.row \in WhereEquals(db', "images", "roomId", e.roomId)
                   /\ outcome'.row \in
                         WhereEquals(db', "images", "equipmentId", e.equipmentId)]_vars

(***************************************************************************)
(* The camera page                                                         *)
(***************************************************************************)
\* C28: on the camera page, whenever mode is CROP a captured image is
\* present, and whenever mode is PREVIEW a captured image and a cropped blob
\* are present, however Capture, Done with its blob callback, Retake and Save
\* interleave.
C28_ModeHasItsImage ==
    camera.mounted =>
        /\ camera.mode = "CROP" => camera.capturedImage
        /\ camera.mode = "PREVIEW" => camera.capturedImage /\ camera.croppedBlob

\* C29: every media stream start() has acquired is stopped at some time after
\* the component has gone away, also when the component goes away or stop()
\* is called while the getUserMedia request is pending; and at no time is
\* more than one acquired stream not stopped.
C29_StreamsStopped ==
    /\ \A s \in 1..MaxStarts :
          (~camera.mounted /\ s \in camera.live) ~> (s \notin camera.live)
    /\ [](Cardinality(camera.live) <= 1)

====
